---------------------------- MODULE Spec2Model ----------------------------
(***************************************************************************)
(* The piece/block scheduling core of opalescence and its peer sessions:   *)
(*   PieceRequester  (src/opalescence/btlib/protocol/piece_handler.py)     *)
(*   Piece, Block, Request (src/opalescence/btlib/protocol/messages.py)    *)
(*   MetaInfoFile.pieces / complete / check_existing_pieces                *)
(*                   (src/opalescence/btlib/protocol/metainfo.py)          *)
(*   PeerConnection  (src/opalescence/btlib/protocol/peer.py)              *)
(*   TrackerTask     (src/opalescence/btlib/protocol/tracker.py)           *)
(*   the encoding of the messages (.../protocol/messages.py)               *)
(*                                                                         *)
(* Lengths are counted in units of ByteUnit bytes, so that a block of      *)
(* IndexableMessage.size bytes is a sequence of two modelled bytes.        *)
(* A byte of value 0 is the byte the metainfo hashes were made from, a     *)
(* byte of value 1 is a corrupted one.                                     *)
(***************************************************************************)
EXTENDS Integers, Sequences, FiniteSets, TLC

\* ------------------------------------------------------------- constants

\* One modelled byte stands for 2^13 bytes of the program.
ByteUnit == 2 ^ 13

\* IndexableMessage.size = 2 ** 14 (Request.size, Block.size).
size == (2 ^ 14) \div ByteUnit

\* The literal of `if len(self.pending_requests) >= 50`.
PendingCap == 50

\* The torrent: info["piece length"] and the total size of its files.
piece_length == 4
total_size == 6

\* The longest pending_requests list Init draws (SpecSeeded), beside the
\* one list of PendingCap requests (FullList).
MaxSeed == 2

Peers == {"A", "B"}

\* len(piece_hashes): ceil(total_size / piece_length).
num_pieces == (total_size + piece_length - 1) \div piece_length

last_piece_length == total_size - ((num_pieces - 1) * piece_length)

\* block_size = min(self.piece_length, Block.size) of _collect_pieces.
block_size == IF piece_length < size THEN piece_length ELSE size

PieceIdx == 0 .. (num_pieces - 1)

PieceLen(i) == IF i = num_pieces - 1 THEN last_piece_length ELSE piece_length

Min(a, b) == IF a < b THEN a ELSE b

\* ------------------------------------------------------------- the state

VARIABLES
    piece_peer_map,     \* Dict[int, Set[PeerInfo]], keys 0 .. num_pieces-1
    peer_piece_map,     \* defaultdict(set): a function on the keys present
    pending_requests,   \* List[Request]
    pieces,             \* torrent.pieces: the Piece objects
    delivered,          \* per piece, the PieceReceivedEvents constructed
    last,               \* the last call: its name, arguments and outcome
    session,            \* per peer, its PeerConnection and the tasks of download()
    tracker,            \* the TrackerTask: its fields, its tasks and its queues
    files,              \* torrent.files: the FileItems and what the disk holds of them
    wire                \* a message, its encoding and the message decoded from it

vars == <<piece_peer_map, peer_piece_map, pending_requests, pieces, delivered, last,
          session, tracker, files, wire>>

\* ------------------------------------------------------------ Block, Piece

\* Block(index, begin, length) with data = b''.
Block(begin, length) == [begin |-> begin, length |-> length, data |-> <<>>]

\* Piece._create_blocks for a piece that is not written.
RECURSIVE BlockList(_, _)
BlockList(idx, num_blocks) ==
    IF idx >= num_blocks THEN <<>>
    ELSE <<Block(idx * block_size, block_size)>> \o BlockList(idx + 1, num_blocks)

create_blocks(piece) ==
    IF piece.written THEN piece
    ELSE [piece EXCEPT !.blocks =
            BlockList(0, (piece.length + block_size - 1) \div block_size)]

\* Piece.__init__
NewPiece(index) ==
    create_blocks([index |-> index, length |-> PieceLen(index), present |-> 0,
                   blocks |-> <<>>, written |-> FALSE])

\* Piece.complete, Piece.remaining
complete(piece) == piece.present = piece.length

remaining(piece) == piece.length - piece.present

\* mark_written without `self.present = self.length`.
mark_written_NoPresent(piece) ==
    [piece EXCEPT !.written = TRUE, !.blocks = <<>>]

\* Piece.mark_written
mark_written(piece) ==
    [piece EXCEPT !.present = piece.length, !.written = TRUE, !.blocks = <<>>]

\* Piece.reset
reset(piece) ==
    create_blocks([piece EXCEPT !.present = 0, !.written = FALSE])

\* Piece.data: b''.join(b.data for b in self._blocks)
RECURSIVE Join(_)
Join(blocks) ==
    IF blocks = <<>> THEN <<>> ELSE Head(blocks).data \o Join(Tail(blocks))

\* hashlib.sha1(x).digest(), taken as injective.
sha1(bytes) == <<"sha1", bytes>>

\* Piece.hash: None when written or not complete.
hash(piece) ==
    IF piece.written \/ ~complete(piece) THEN <<"None">> ELSE sha1(Join(piece.blocks))

\* The content the torrent was made from, and torrent.piece_hashes.
Content(i) == [j \in 1 .. PieceLen(i) |-> 0]

piece_hashes(i) == sha1(Content(i))

\* Piece.add_block; the outcome is "ok", "NonSequentialBlockError" or
\* "IndexError" (self._blocks[len(self._blocks)] = block).
add_block_outcome(piece, begin) ==
    LET block_index == begin \div block_size IN
    IF complete(piece) THEN "ok"
    ELSE IF block_index < -1 \/ block_index > Len(piece.blocks)
         THEN "NonSequentialBlockError"
    ELSE IF block_index = Len(piece.blocks) THEN "IndexError"
    ELSE "ok"

\* add_block without `self.present += len(block.data)`.
add_block_NoCount(piece, begin, data) ==
    LET block_index == begin \div block_size IN
    IF complete(piece) \/ add_block_outcome(piece, begin) # "ok" THEN piece
    ELSE [piece EXCEPT !.blocks[block_index + 1] =
            [begin |-> begin, length |-> Len(data), data |-> data]]

add_block(piece, begin, data) ==
    LET block_index == begin \div block_size
        \* a Python index of -1 is the last slot
        slot == IF block_index = -1 THEN Len(piece.blocks) ELSE block_index + 1
    IN
    IF complete(piece) \/ add_block_outcome(piece, begin) # "ok" THEN piece
    ELSE [piece EXCEPT
            !.blocks[slot] = [begin |-> begin, length |-> Len(data), data |-> data],
            !.present = piece.present + Len(data)]

\* torrent.remaining, torrent.complete
RECURSIVE SumRemaining(_, _)
SumRemaining(ps, i) ==
    IF i >= num_pieces THEN 0 ELSE remaining(ps[i]) + SumRemaining(ps, i + 1)

torrent_complete(ps) == SumRemaining(ps, 0) = 0

\* ------------------------------------------------------- the files on disk

\* The files a torrent may have.
MaxFiles == 3

\* FileItem(path, size, offset, exists), with the bytes the disk holds of the
\* file: 0 for the byte the content has at that place, 1 for another byte.
FileItem(length, offset, exists, data) ==
    [size |-> length, offset |-> offset, exists |-> exists, data |-> data]

\* What the disk holds of a file of a given size.
Held(length, state) ==
    CASE state = "valid" -> [j \in 1 .. length |-> 0]
      [] state = "corrupt" -> [j \in 1 .. length |-> IF j = 1 THEN 1 ELSE 0]
      [] OTHER -> <<>>

\* MetaInfoFile._gather_files over the lengths of info["files"], from file i
\* on, the files before it taking offset bytes.
RECURSIVE gather_files(_, _, _, _)
gather_files(file_list, states, i, offset) ==
    IF i > Len(file_list) THEN <<>>
    ELSE <<FileItem(file_list[i], offset, states[i] # "missing",
                    Held(file_list[i], states[i]))>>
         \o gather_files(file_list, states, i + 1, offset + file_list[i])

\* The one file of a single-file torrent, holding the right bytes of the
\* pieces of onDisk and other bytes elsewhere.
OneFile(onDisk) ==
    <<FileItem(total_size, 0, TRUE,
               [k \in 1 .. total_size |->
                   IF ((k - 1) \div piece_length) \in onDisk THEN 0 ELSE 1])>>

\* FileItem.file_for_offset: the file holding the byte at an offset of the
\* content, and the offset of that byte in the file.
file_for_offset(fs, offset) ==
    LET k == CHOOSE k \in 1 .. Len(fs) :
                 fs[k].offset <= offset /\ offset < fs[k].offset + fs[k].size
    IN  [file_index |-> k, file_offset |-> offset - fs[k].offset]

\* fp.seek(at); fp.read(n): the bytes read, each with the place of the
\* content it was read from.
read(file, at, n) ==
    [j \in 1 .. Min(n, Len(file.data) - at) |->
        [at |-> file.offset + at + j - 1, byte |-> file.data[at + j]]]

\* The bytes read for piece i, as the piece's data: 0 where the byte is the
\* content's byte of that place in the piece.
found(i, piece_data) ==
    [j \in 1 .. Len(piece_data) |->
        IF piece_data[j].byte = 0 /\ piece_data[j].at = i * piece_length + j - 1
        THEN 0 ELSE 1]

\* The body of the loop of check_existing_pieces for piece i.
check_piece(piece, i, fs) ==
    LET loc == file_for_offset(fs, i * piece_length)
        file == fs[loc.file_index]
        spans == loc.file_offset + piece.length > file.size
        next_file_index == loc.file_index + 1
        first_file_len == file.size - loc.file_offset
        piece_data ==
            IF spans
            THEN read(file, loc.file_offset, first_file_len)
                 \o read(fs[next_file_index], 0, piece.length - first_file_len)
            ELSE read(file, loc.file_offset, piece.length)
    IN  IF ~file.exists THEN piece
        ELSE IF spans /\ (next_file_index > Len(fs) \/ ~fs[next_file_index].exists)
             THEN piece
        ELSE IF Len(piece_data) # piece.length THEN piece
        ELSE IF sha1(found(i, piece_data)) = piece_hashes(i) THEN mark_written(piece)
        ELSE reset(piece)

\* ------------------------------------------------------- the availability maps

\* defaultdict(set).__getitem__: a missing key reads as the empty set ...
Get(m, p) == IF p \in DOMAIN m THEN m[p] ELSE {}

\* ... and is inserted by the read.
Put(m, p, s) == [q \in (DOMAIN m) \cup {p} |-> IF q = p THEN s ELSE m[q]]

Touch(m, p) == Put(m, p, Get(m, p))

Drop(m, p) == [q \in (DOMAIN m) \ {p} |-> m[q]]

\* --------------------------------------------------------------- requests

\* A Request with the peer it was issued to.
Request(index, begin, length, peer_id) ==
    [index |-> index, begin |-> begin, length |-> length, peer_id |-> peer_id]

\* IndexableMessage.__eq__
ReqEq(a, b) == a.index = b.index /\ a.begin = b.begin /\ a.length = b.length

RemoveAt(s, i) == SubSeq(s, 1, i - 1) \o SubSeq(s, i + 1, Len(s))

\* `for i, request in enumerate(self.pending_requests): if ...: del ...[i]`:
\* the list iterator goes on at position i + 1 of the shortened list.
RECURSIVE PeerLoop(_, _, _)
PeerLoop(reqs, i, peer) ==
    IF i > Len(reqs) THEN reqs
    ELSE IF reqs[i].peer_id = peer THEN PeerLoop(RemoveAt(reqs, i), i + 1, peer)
    ELSE PeerLoop(reqs, i + 1, peer)

remove_pending_requests_for_peer(reqs, peer) == PeerLoop(reqs, 1, peer)

RECURSIVE RequestLoop(_, _, _)
RequestLoop(reqs, i, r) ==
    IF i > Len(reqs) THEN reqs
    ELSE IF ReqEq(reqs[i], r) THEN RequestLoop(RemoveAt(reqs, i), i + 1, r)
    ELSE RequestLoop(reqs, i + 1, r)

\* remove_request: the list left, and whether anything was removed.
remove_request(reqs, r) == RequestLoop(reqs, 1, r)

removed(reqs, r) == \E i \in 1 .. Len(reqs) : ReqEq(reqs[i], r)

RECURSIVE PieceLoop(_, _, _)
PieceLoop(reqs, i, piece_index) ==
    IF i > Len(reqs) THEN reqs
    ELSE IF reqs[i].index = piece_index
         THEN PieceLoop(RemoveAt(reqs, i), i + 1, piece_index)
    ELSE PieceLoop(reqs, i + 1, piece_index)

remove_requests_for_piece(reqs, piece_index) == PieceLoop(reqs, 1, piece_index)

\* ------------------------------------------------------------------- Init

\* A call: its name, what it returned or raised and what it logged about the
\* piece ("-": nothing); the peer of remove_peer and next_request_for_peer,
\* the piece index of received_block and of a request returned.
Call(op, peer, index, result, log) ==
    [op |-> op, peer |-> peer, index |-> index, result |-> result, log |-> log]

\* check_existing_pieces: the pieces found valid on disk are marked written.
Resumed(onDisk) ==
    [i \in PieceIdx |-> IF i \in onDisk THEN mark_written(NewPiece(i)) ELSE NewPiece(i)]

\* TrackerConnection.DEFAULT_INTERVAL
DEFAULT_INTERVAL == 60

\* Nothing encoded yet.
NoWire == [sent |-> [kind |-> "none"], bytes |-> <<>>, received |-> [kind |-> "none"]]

\* PeerState.__init__
PeerState == [choking |-> TRUE, interested |-> FALSE]

\* The peer_id of the local peer, and that of a PeerInfo made without one.
local_peer_id == "idU"

unknown == "None"

\* Assignment to the peer_id of a PeerInfo: the endpoint's optional peer_id
\* takes the value assigned.
set_peer_id(info, value) == value

\* PeerConnection.__init__: the remote peer's flags (_peer_state), the local
\* ones (_local_state), the queue of the messages to send and the messages
\* written to the stream, the _peer_id of self.peer (not known) and of
\* self._local_peer, the handshake read from the peer (nothing read yet),
\* the state of the task that runs download() and of read_task and
\* write_task ("none": not created), and the number of remove_peer calls the
\* connection has made.
NewConnection ==
    [choking |-> PeerState.choking, interested |-> PeerState.interested,
     local |-> PeerState,
     msg_to_send_q |-> <<>>, written |-> <<>>,
     peer |-> unknown, local_peer |-> local_peer_id,
     received |-> [read |-> 0, info_hash |-> "none", peer_id |-> "none"],
     download |-> "created", read_task |-> "none", write_task |-> "none",
     removed |-> 0, cancel_requested |-> FALSE]

\* TrackerConnection.__init__ and TrackerTask.__init__ over the announce URLs
\* in the order the deque(set(...)) of the constructor gives them. requests
\* counts the calls of http_request, completed those whose parameters carry
\* the event completed, and succeeded tells whether the tracker has answered
\* a request of _recurring_announce.
NewTracker(urls) ==
    [announce_urls |-> urls, interval |-> DEFAULT_INTERVAL,
     task |-> "none", announce_task |-> "none", receive_task |-> "none",
     event |-> "-", url |-> "-", sending |-> "-",
     response_queue |-> <<>>, peer_queue |-> <<>>,
     final |-> [state |-> "none", event |-> "-", url |-> "-"],
     requests |-> 0, succeeded |-> FALSE, completed |-> 0]

InitRequester(reqs, onDisk) ==
    /\ session = [p \in Peers |-> NewConnection]
    /\ files = OneFile(onDisk)
    /\ wire = NoWire
    /\ piece_peer_map = [i \in PieceIdx |-> {}]
    /\ peer_piece_map = << >>
    /\ pending_requests = reqs
    /\ pieces = Resumed(onDisk)
    /\ delivered = [i \in PieceIdx |-> 0]
    /\ last = Call("init", "-", 0, "None", "-")

\* The announce URLs of the torrent in one order.
Urls == <<"u1", "u2">>

InitWith(reqs, onDisk) ==
    /\ InitRequester(reqs, onDisk)
    /\ tracker = NewTracker(Urls)

\* PieceRequester.__init__ after check_existing_pieces.
Init == \E onDisk \in SUBSET PieceIdx : InitWith(<<>>, onDisk)

\* pending_requests is a public list that no method of the class can fill
\* (see next_request_for_peer), so the claims about what the methods do to
\* the requests it holds are checked from lists drawn here: every list of at
\* most MaxSeed requests for blocks of pieces that are not on disk, and one
\* list of PendingCap requests.
SeedRequests(onDisk) ==
    {Request(i, k * block_size, size, p) :
        i \in PieceIdx \ onDisk, k \in 0 .. 1, p \in Peers}

SeedLists(onDisk) ==
    UNION {[1 .. n -> SeedRequests(onDisk)] : n \in 0 .. MaxSeed}

\* PendingCap requests of distinct begin offsets, issued to one peer.
FullList ==
    [k \in 1 .. PendingCap |-> Request(0, (k - 1) * block_size, size, "A")]

InitSeeded ==
    \/ \E onDisk \in SUBSET PieceIdx : \E reqs \in SeedLists(onDisk) :
          InitWith(reqs, onDisk)
    \/ InitWith(FullList, {})

\* ---------------------------------------------------------------- actions

\* add_available_piece(peer, index); index is what the Have message carried.
\* self.piece_peer_map[index] raises KeyError for an index that is no key.
AddAvailable(pcm, ppm, peer, index) ==
    IF index \notin DOMAIN pcm
    THEN [piece_peer_map |-> pcm, peer_piece_map |-> ppm, result |-> "KeyError"]
    ELSE [piece_peer_map |-> [pcm EXCEPT ![index] = @ \cup {peer}],
          peer_piece_map |-> Put(ppm, peer, Get(ppm, peer) \cup {index}),
          result |-> "None"]

add_available_piece(peer, index) ==
    \E r \in {AddAvailable(piece_peer_map, peer_piece_map, peer, index)} :
        /\ piece_peer_map' = r.piece_peer_map
        /\ peer_piece_map' = r.peer_piece_map
        /\ last' = Call("add_available_piece", "-", 0, r.result, "-")
        /\ UNCHANGED <<pending_requests, pieces, delivered>>

\* add_peer_bitfield: `for i, b in enumerate(bitfield): if b: add_available_piece`;
\* bitfield[i + 1] is bit i, and a KeyError ends the loop.
RECURSIVE BitfieldLoop(_, _, _, _, _)
BitfieldLoop(pcm, ppm, peer, bitfield, i) ==
    IF i >= Len(bitfield)
    THEN [piece_peer_map |-> pcm, peer_piece_map |-> ppm, result |-> "None"]
    ELSE IF ~bitfield[i + 1] THEN BitfieldLoop(pcm, ppm, peer, bitfield, i + 1)
    ELSE LET r == AddAvailable(pcm, ppm, peer, i) IN
         IF r.result = "KeyError" THEN r
         ELSE BitfieldLoop(r.piece_peer_map, r.peer_piece_map, peer, bitfield, i + 1)

add_peer_bitfield(peer, bitfield) ==
    \E r \in {BitfieldLoop(piece_peer_map, peer_piece_map, peer, bitfield, 0)} :
        /\ piece_peer_map' = r.piece_peer_map
        /\ peer_piece_map' = r.peer_piece_map
        /\ last' = Call("add_peer_bitfield", "-", 0, r.result, "-")
        /\ UNCHANGED <<pending_requests, pieces, delivered>>

\* remove_peer(peer)
remove_peer(peer) ==
    /\ piece_peer_map' = [i \in DOMAIN piece_peer_map |-> piece_peer_map[i] \ {peer}]
    /\ peer_piece_map' = Drop(peer_piece_map, peer)
    /\ pending_requests' = remove_pending_requests_for_peer(pending_requests, peer)
    /\ last' = Call("remove_peer", peer, 0, "None", "-")
    /\ UNCHANGED <<pieces, delivered>>

\* piece_complete without the comparison of the hashes.
piece_complete_NoHashTest(piece, reqs) ==
    [piece |-> piece, pending |-> remove_requests_for_piece(reqs, piece.index),
     events |-> 1, log |-> "completed"]

\* piece_complete(piece): the piece, the pending requests and the number of
\* PieceReceivedEvents after it.
piece_complete(piece, reqs) ==
    IF hash(piece) # piece_hashes(piece.index)
    THEN [piece |-> reset(piece), pending |-> reqs, events |-> 0,
          log |-> "hash mismatch"]
    ELSE [piece |-> piece,
          pending |-> remove_requests_for_piece(reqs, piece.index),
          events |-> 1, log |-> "completed"]

\* received_block(peer, block) with block = Block(index, begin) carrying data.
ReceivedBlock(pcm, ppm, reqs, ps, peer, index, begin, data) ==
    LET ppm1 == Put(ppm, peer, Get(ppm, peer) \cup {index})
        same == [piece_peer_map |-> pcm, peer_piece_map |-> ppm1, pending |-> reqs,
                 pieces |-> ps, events |-> 0, result |-> "False", log |-> "disregarding"]
    IN
    IF index \notin DOMAIN pcm THEN [same EXCEPT !.result = "KeyError"]
    ELSE
    LET pcm1 == [pcm EXCEPT ![index] = @ \cup {peer}]
        seen == [same EXCEPT !.piece_peer_map = pcm1]
    IN
    IF index > num_pieces THEN seen
    ELSE
    LET piece == ps[index]
        r == Request(index, begin, Min(remaining(piece), size), "None")
    IN
    IF complete(piece) THEN seen
    ELSE IF ~removed(reqs, r) THEN seen
    ELSE
    LET reqs1 == remove_request(reqs, r)
        outcome == add_block_outcome(piece, begin)
        piece1 == add_block(piece, begin, data)
    IN
    IF outcome = "IndexError"
    THEN [seen EXCEPT !.pending = reqs1, !.result = "IndexError", !.log = "-"]
    ELSE IF ~complete(piece1)
    THEN [seen EXCEPT !.pending = reqs1, !.pieces = [ps EXCEPT ![index] = piece1],
                      !.result = "True",
                      !.log = IF outcome = "ok" THEN "-" ELSE "non-sequential"]
    ELSE LET c == piece_complete(piece1, reqs1) IN
         [seen EXCEPT !.pending = c.pending, !.pieces = [ps EXCEPT ![index] = c.piece],
                      !.events = c.events, !.result = "True", !.log = c.log]

received_block(peer, index, begin, data) ==
    \E r \in {ReceivedBlock(piece_peer_map, peer_piece_map, pending_requests, pieces,
                            peer, index, begin, data)} :
        /\ piece_peer_map' = r.piece_peer_map
        /\ peer_piece_map' = r.peer_piece_map
        /\ pending_requests' = r.pending
        /\ pieces' = r.pieces
        /\ delivered' = IF r.events = 0 THEN delivered
                        ELSE [delivered EXCEPT ![index] = @ + r.events]
        /\ last' = Call("received_block", "-", index, r.result, r.log)

\* The loop of next_request_for_peer over self.peer_piece_map[peer], a set of
\* small ints, which CPython iterates in ascending order.  The first piece
\* that is not complete is where `piece.next_block` is read: Piece has no
\* such attribute, and the Request constructor takes no peer_id, so the
\* statement raises before anything is appended.
RECURSIVE PieceSearch(_, _)
PieceSearch(ps, todo) ==
    IF todo = {} THEN "None"
    ELSE LET i == CHOOSE x \in todo : \A y \in todo : x <= y IN
         IF i \notin DOMAIN ps THEN "IndexError"
         ELSE IF complete(ps[i]) THEN PieceSearch(ps, todo \ {i})
         ELSE "AttributeError"

\* next_request_for_peer with line 211 made to build Request(i, 0, size) for
\* the peer and with the `request in self.pending_requests` test left out.
NextRequest_NoPendingTest(ppm, reqs, ps, peer) ==
    LET todo == {i \in Get(ppm, peer) \cap DOMAIN ps : ~complete(ps[i])}
        i == CHOOSE x \in todo : \A y \in todo : x <= y
    IN
    IF torrent_complete(ps) \/ Len(reqs) >= PendingCap \/ todo = {}
    THEN [peer_piece_map |-> ppm, pending |-> reqs, result |-> "None", index |-> 0]
    ELSE [peer_piece_map |-> Touch(ppm, peer),
          pending |-> Append(reqs, Request(i, 0, Min(remaining(ps[i]), size), peer)),
          result |-> "Request", index |-> i]

\* next_request_for_peer looking through every piece of the torrent instead
\* of the pieces of self.peer_piece_map[peer].
NextRequest_EveryPiece(ppm, reqs, ps, peer) ==
    IF torrent_complete(ps) \/ Len(reqs) >= PendingCap
    THEN [peer_piece_map |-> ppm, pending |-> reqs, result |-> "None", index |-> 0]
    ELSE [peer_piece_map |-> Touch(ppm, peer), pending |-> reqs,
          result |-> PieceSearch(ps, DOMAIN ps), index |-> 0]

\* next_request_for_peer with `>` for `>=` in the test of the 50 requests.
NextRequest_CapOffByOne(ppm, reqs, ps, peer) ==
    IF torrent_complete(ps) \/ Len(reqs) > PendingCap
    THEN [peer_piece_map |-> ppm, pending |-> reqs, result |-> "None", index |-> 0]
    ELSE [peer_piece_map |-> Touch(ppm, peer), pending |-> reqs,
          result |-> PieceSearch(ps, Get(ppm, peer)), index |-> 0]

\* next_request_for_peer(peer): the maps' and the list's new values, and the
\* outcome: "None", an exception, or "Request" with the request returned.
NextRequest(ppm, reqs, ps, peer) ==
    LET none == [peer_piece_map |-> ppm, pending |-> reqs, result |-> "None",
                 index |-> 0]
    IN
    IF torrent_complete(ps) THEN none
    ELSE IF Len(reqs) >= PendingCap THEN none
    ELSE [none EXCEPT !.peer_piece_map = Touch(ppm, peer),
                      !.result = PieceSearch(ps, Get(ppm, peer))]

next_request_for_peer(peer) ==
    \E r \in {NextRequest(peer_piece_map, pending_requests, pieces, peer)} :
        /\ peer_piece_map' = r.peer_piece_map
        /\ pending_requests' = r.pending
        /\ last' = Call("next_request_for_peer", peer, r.index, r.result, "-")
        /\ UNCHANGED <<piece_peer_map, pieces, delivered>>

\* ------------------------------------------------------------------ inputs

\* The indexes past the last piece that a Have, a Bitfield or a Block may name.
Spare == 1

\* What a Have or a Block may carry as index: a piece, or an index out of range.
WireIdx == 0 .. (num_pieces - 1 + Spare)

\* A Bitfield of the wire: one bit per piece, and spare bits.
Bitfields(len) == [1 .. len -> BOOLEAN]

\* The begin offsets a Block may carry: the blocks of a piece, the offset
\* just past a piece and one beyond it.
WireBegin == {k * block_size : k \in 0 .. 3}

\* The data a Block may carry: a whole block, right or corrupted, or a short one.
WireData == {<<0, 0>>, <<0, 1>>, <<0>>}

\* The calls of a run whose peers may name any index of WireIdx.
Next ==
    /\ \/ \E peer \in Peers, index \in WireIdx : add_available_piece(peer, index)
       \/ \E peer \in Peers, bitfield \in Bitfields(num_pieces + Spare) :
             add_peer_bitfield(peer, bitfield)
       \/ \E peer \in Peers : remove_peer(peer)
       \/ \E peer \in Peers, index \in WireIdx, begin \in WireBegin, data \in WireData :
             received_block(peer, index, begin, data)
       \/ \E peer \in Peers : next_request_for_peer(peer)
    /\ UNCHANGED <<session, tracker, files, wire>>

\* The calls of a run whose peers name the torrent's pieces only.
NextInRange ==
    /\ \/ \E peer \in Peers, index \in PieceIdx : add_available_piece(peer, index)
       \/ \E peer \in Peers, bitfield \in Bitfields(num_pieces) :
             add_peer_bitfield(peer, bitfield)
       \/ \E peer \in Peers : remove_peer(peer)
       \/ \E peer \in Peers, index \in PieceIdx, begin \in WireBegin, data \in WireData :
             received_block(peer, index, begin, data)
       \/ \E peer \in Peers : next_request_for_peer(peer)
    /\ UNCHANGED <<session, tracker, files, wire>>

\* The requester as constructed, with peers that may name any index.
Spec == Init /\ [][Next]_vars

\* The requester with pending_requests drawn from the seed lists.
SpecSeeded == InitSeeded /\ [][NextInRange]_vars

\* The block of piece i at begin as the torrent's content has it.
RightData(i, begin) ==
    SubSeq(Content(i), begin + 1, Min(begin + block_size, PieceLen(i)))

\* Spec with every peer asking for its next request again and again, and
\* every block answered with the right data again and again.
Fairness ==
    /\ \A p \in Peers :
          WF_vars(/\ next_request_for_peer(p)
                  /\ UNCHANGED <<session, tracker, files, wire>>)
    /\ \A p \in Peers, i \in PieceIdx :
          \A begin \in {b \in WireBegin : b < PieceLen(i)} :
              WF_vars(/\ received_block(p, i, begin, RightData(i, begin))
                      /\ UNCHANGED <<session, tracker, files, wire>>)

SpecLive == Init /\ [][Next]_vars /\ Fairness

\* ------------------------------------------------------- the peer session

\* Handshake.msg_len
msg_len == 68

\* self.info_hash, and the info hashes a peer may answer with.
info_hash == "ours"

InfoHashes == {info_hash, "other"}

\* What readexactly(Handshake.msg_len) finds: the bytes the peer sent before
\* it stopped, and the info_hash and the peer_id they carry.
Handshakes ==
    [read : {msg_len - 1, msg_len}, info_hash : InfoHashes, peer_id : {"idR"}]

\* _handshake without the comparison of the info hashes.
handshake_NoHashTest(hs) == hs.read >= msg_len

\* PeerConnection._handshake: False on IncompleteReadError and on an
\* info_hash that is not ours.
handshake(hs) ==
    IF hs.read < msg_len THEN FALSE
    ELSE IF hs.info_hash # info_hash THEN FALSE
    ELSE TRUE

\* Task.cancel(): a task that has not run yet never enters its coroutine, a
\* suspended one gets CancelledError where it waits, a finished one is left.
Cancel(task) ==
    IF task = "created" THEN "must_cancel"
    ELSE IF task = "running" THEN "cancelling"
    ELSE task

\* Task.done()
Done(task) == task \in {"returned", "PeerError", "cancelled"}

Requester == <<piece_peer_map, peer_piece_map, pending_requests, pieces, delivered>>

\* download() up to the read of the handshake: make_connection opens the
\* connection (any failure is raised as PeerError), _handshake writes ours.
make_connection(p, connected) ==
    /\ session[p].download = "created"
    /\ session' = [session EXCEPT
          ![p].download = IF connected THEN "handshake" ELSE "PeerError"]
    /\ last' = Call("make_connection", p, 0,
                    IF connected THEN "None" ELSE "PeerError", "-")
    /\ UNCHANGED Requester

\* The rest of _handshake and of make_connection, and download() up to
\* `await asyncio.gather(...)`: on True, read_task and write_task are created.
download(p, hs) ==
    /\ session[p].download = "handshake"
    /\ session' = [session EXCEPT
          ![p].received = hs,
          ![p].local_peer =
              IF handshake(hs) THEN set_peer_id(@, hs.peer_id) ELSE @,
          ![p].msg_to_send_q = IF handshake(hs) THEN Append(@, "Interested") ELSE @,
          ![p].download = IF handshake(hs) THEN "gather" ELSE "PeerError",
          ![p].read_task = IF handshake(hs) THEN "created" ELSE "none",
          ![p].write_task = IF handshake(hs) THEN "created" ELSE "none"]
    /\ last' = Call("_handshake", p, 0, IF handshake(hs) THEN "True" ELSE "False", "-")
    /\ UNCHANGED Requester

\* _produce, from its first step: `log, msg = asyncio.wait_for(...)` is not
\* awaited, and unpacking the coroutine object raises TypeError, which
\* `except Exception` turns into PeerError before any message is written.
\* The task is never suspended inside its try statement, so its
\* `except asyncio.CancelledError` clause cannot run.
produce == "PeerError"

\* first_steps with a _produce that asks the requester for a request for
\* the peer before it looks at anything else.
first_steps_Query(p) ==
    /\ session[p].read_task \in {"created", "must_cancel"}
    /\ session' = [session EXCEPT
          ![p].read_task = IF @ = "created" THEN "running" ELSE "cancelled",
          ![p].write_task = IF @ = "created" THEN produce ELSE "cancelled"]
    /\ last' = Call("next_request_for_peer", p, 0, "None", "-")
    /\ UNCHANGED Requester

\* The first steps of read_task and write_task, which the event loop runs
\* one after the other in the order the tasks were created: _consume runs
\* to its first readexactly and _produce to its end; tasks cancelled before
\* they ran end without entering their coroutines.
first_steps(p) ==
    /\ session[p].read_task \in {"created", "must_cancel"}
    /\ session' = [session EXCEPT
          ![p].read_task = IF @ = "created" THEN "running" ELSE "cancelled",
          ![p].write_task = IF @ = "created" THEN produce ELSE "cancelled"]
    /\ last' = Call("create_task", p, 0, "None", "-")
    /\ UNCHANGED Requester

\* The message ids _consume handles without the requester: Choke, Unchoke,
\* Interested, NotInterested, Request, Cancel; -1 stands for a KeepAlive (a
\* length of 0, no id).
FlagIds == {-1, 0, 1, 2, 3, 6, 8}

\* _consume with an Unchoke that leaves _peer_state.choking as it is.
consume_flag_NoUnchoke(p, msg_id) ==
    /\ session[p].read_task = "running"
    /\ session' = [session EXCEPT
          ![p].choking = IF msg_id = 0 THEN TRUE ELSE @,
          ![p].interested = IF msg_id = 2 THEN TRUE
                            ELSE IF msg_id = 3 THEN FALSE ELSE @]
    /\ last' = Call("_consume", p, msg_id, "None", "-")
    /\ UNCHANGED Requester

consume_flag(p, msg_id) ==
    /\ session[p].read_task = "running"
    /\ session' = [session EXCEPT
          ![p].choking = IF msg_id = 0 THEN TRUE
                         ELSE IF msg_id = 1 THEN FALSE ELSE @,
          ![p].interested = IF msg_id = 2 THEN TRUE
                            ELSE IF msg_id = 3 THEN FALSE ELSE @]
    /\ last' = Call("_consume", p, msg_id, "None", "-")
    /\ UNCHANGED Requester

\* _consume after a call of the requester: an exception of the call is
\* raised as PeerError and ends read_task.
AfterCall(p, result) ==
    [session EXCEPT ![p].read_task =
        IF result \in {"KeyError", "IndexError", "AttributeError"}
        THEN "PeerError" ELSE "running"]

\* msg_id 4: Have
consume_Have(p, index) ==
    /\ session[p].read_task = "running"
    /\ add_available_piece(p, index)
    /\ session' = AfterCall(p, last'.result)

\* msg_id 5: Bitfield
consume_Bitfield(p, bitfield) ==
    /\ session[p].read_task = "running"
    /\ add_peer_bitfield(p, bitfield)
    /\ session' = AfterCall(p, last'.result)

\* msg_id 7: Block
consume_Block(p, index, begin, data) ==
    /\ session[p].read_task = "running"
    /\ received_block(p, index, begin, data)
    /\ session' = AfterCall(p, last'.result)

\* Any other msg_id, or a read that the end of the stream cuts short.
consume_error(p, msg_id) ==
    /\ session[p].read_task = "running"
    /\ session' = [session EXCEPT ![p].read_task = "PeerError"]
    /\ last' = Call("_consume", p, msg_id, "PeerError", "-")
    /\ UNCHANGED Requester

\* `except CancelledError` of _consume.
consume_cancelled(p) ==
    /\ session[p].read_task = "cancelling"
    /\ remove_peer(p)
    /\ session' = [session EXCEPT
          ![p].read_task = "returned",
          ![p].write_task = Cancel(@),
          ![p].removed = @ + 1]

\* gather's future is done as soon as a task ends with an exception or
\* cancelled, or when both have ended; download() raises PeerError for each.
gather_done(p) ==
    /\ session[p].download = "gather"
    /\ \/ session[p].read_task \in {"PeerError", "cancelled"}
       \/ session[p].write_task \in {"PeerError", "cancelled"}
       \/ Done(session[p].read_task) /\ Done(session[p].write_task)
    /\ session' = [session EXCEPT ![p].download = "PeerError"]
    /\ last' = Call("download", p, 0, "PeerError", "-")
    /\ UNCHANGED Requester

\* The task that runs download() is cancelled before it has ended: gather
\* cancels read_task and write_task; before gather, CancelledError leaves
\* download() through make_connection.
cancel(p) ==
    /\ session[p].download \in {"created", "handshake", "gather"}
    /\ ~session[p].cancel_requested
    /\ session' = [session EXCEPT
          ![p].cancel_requested = TRUE,
          ![p].download = IF @ = "gather" THEN @ ELSE "cancelled",
          ![p].read_task = Cancel(@),
          ![p].write_task = Cancel(@)]
    /\ last' = Call("cancel", p, 0, "None", "-")
    /\ UNCHANGED Requester

\* The message ids no branch of _consume handles.
UnknownIds == {9}

\* The peers the client has made a PeerConnection for; the other peers are
\* known to the requester only.
Dialed == {"A"}

NextSession ==
    /\ \/ \E p \in Dialed, connected \in BOOLEAN : make_connection(p, connected)
       \/ \E p \in Dialed, hs \in Handshakes : download(p, hs)
       \/ \E p \in Dialed : first_steps(p)
       \/ \E p \in Dialed, msg_id \in FlagIds : consume_flag(p, msg_id)
       \/ \E p \in Dialed, index \in WireIdx : consume_Have(p, index)
       \/ \E p \in Dialed, bitfield \in Bitfields(num_pieces + Spare) :
             consume_Bitfield(p, bitfield)
       \/ \E p \in Dialed, index \in WireIdx, begin \in WireBegin, data \in WireData :
             consume_Block(p, index, begin, data)
       \/ \E p \in Dialed, msg_id \in UnknownIds : consume_error(p, msg_id)
       \/ \E p \in Dialed : consume_cancelled(p)
       \/ \E p \in Dialed : gather_done(p)
       \/ \E p \in Dialed : cancel(p)
    /\ UNCHANGED <<tracker, files, wire>>

\* The lists of pending requests a session starts with: none, and two
\* requests in a row issued to one peer.
SessionSeeds ==
    {<<>>, <<Request(0, 0, size, "A"), Request(0, block_size, size, "A")>>}

InitSession == \E reqs \in SessionSeeds : InitWith(reqs, {})

\* The connections to the peers, each run by download(), over one requester.
SpecSession == InitSession /\ [][NextSession]_vars

\* ----------------------------------------------------- the Piece on its own

\* The largest value of present that add_block is called to reach (SpecPiece).
MaxPresent == 6

\* The data of a Block handed to add_block: what a Block of the wire may
\* carry, and data longer than a block.
BlockData == WireData \cup {<<0, 0, 0>>}

\* torrent.pieces[index].add_block(block)
Piece_add_block(index, begin, data) ==
    /\ pieces[index].present + Len(data) <= MaxPresent
    /\ pieces' = [pieces EXCEPT ![index] = add_block(@, begin, data)]
    /\ last' = Call("add_block", "-", index,
                    add_block_outcome(pieces[index], begin), "-")
    /\ UNCHANGED <<piece_peer_map, peer_piece_map, pending_requests, delivered>>

\* torrent.pieces[index].mark_written()
Piece_mark_written(index) ==
    /\ pieces' = [pieces EXCEPT ![index] = mark_written(@)]
    /\ last' = Call("mark_written", "-", index, "None", "-")
    /\ UNCHANGED <<piece_peer_map, peer_piece_map, pending_requests, delivered>>

\* torrent.pieces[index].reset()
Piece_reset(index) ==
    /\ pieces' = [pieces EXCEPT ![index] = reset(@)]
    /\ last' = Call("reset", "-", index, "None", "-")
    /\ UNCHANGED <<piece_peer_map, peer_piece_map, pending_requests, delivered>>

NextPiece ==
    /\ \/ \E index \in PieceIdx, begin \in WireBegin, data \in BlockData :
             Piece_add_block(index, begin, data)
       \/ \E index \in PieceIdx : Piece_mark_written(index)
       \/ \E index \in PieceIdx : Piece_reset(index)
    /\ UNCHANGED <<session, tracker, files, wire>>

\* The pieces of the torrent under any sequence of calls of their methods.
SpecPiece == Init /\ [][NextPiece]_vars

\* The sizes a torrent of num_pieces piece hashes may have.
TotalSizes == ((num_pieces - 1) * piece_length + 1) .. (num_pieces * piece_length)

\* _collect_pieces over a torrent of the size total: every piece has
\* piece_length bytes but the last, which has last_piece_length.
collect_pieces(total) ==
    [piece_index \in PieceIdx |->
        create_blocks([index |-> piece_index,
                       length |-> IF piece_index = num_pieces - 1
                                  THEN total - ((num_pieces - 1) * piece_length)
                                  ELSE piece_length,
                       present |-> 0, blocks |-> <<>>, written |-> FALSE])]

InitCollect ==
    \E total \in TotalSizes :
        /\ session = [p \in Peers |-> NewConnection]
        /\ files = <<FileItem(total, 0, FALSE, <<>>)>>
        /\ wire = NoWire
        /\ tracker = NewTracker(Urls)
        /\ piece_peer_map = [i \in PieceIdx |-> {}]
        /\ peer_piece_map = << >>
        /\ pending_requests = <<>>
        /\ pieces = collect_pieces(total)
        /\ delivered = [i \in PieceIdx |-> 0]
        /\ last = Call("init", "-", 0, "None", "-")

\* The pieces of a torrent of any size under the calls of their methods.
SpecCollect == InitCollect /\ [][NextPiece]_vars

\* ---------------------------------------------------------- the tracker task

EVENT_STARTED == "started"

EVENT_COMPLETED == "completed"

EVENT_STOPPED == "stopped"

\* The announces a recurring announce may begin after a sleep.
MaxRequests == 3

\* The orders in which deque(set(...)) can hold the announce URLs of a
\* torrent with two URLs, one URL and none.
UrlOrders == {<<>>, <<"u1">>, <<"u1", "u2">>, <<"u2", "u1">>}

\* The local peer, as trackers list it among the peers.
client_info == "us"

\* The decoded data of a tracker's answers; 0 stands for a key that is absent,
\* the empty list for no "peers".
TrackerData ==
    [interval : {0, 30}, min_interval : {0, 10},
     peers : {<<>>, <<"p1">>, <<"us", "p1", "p2">>}]

\* TrackerResponse.interval
interval(data) ==
    LET given == IF data.interval = 0 THEN DEFAULT_INTERVAL ELSE data.interval
    IN  IF data.min_interval = 0 THEN given ELSE Min(data.min_interval, given)

\* TrackerConnection.announce up to the await of http_request: the error it
\* raises, or the URL it took from the deque and the event it sends.
announce(t, event) ==
    IF Len(t.announce_urls) = 0
    THEN [raised |-> "NoTrackersError", url |-> "-", event |-> event,
          announce_urls |-> t.announce_urls]
    ELSE [raised |-> "None", url |-> Head(t.announce_urls),
          event |-> IF SumRemaining(pieces, 0) = 0 /\ event = ""
                    THEN EVENT_COMPLETED ELSE event,
          announce_urls |-> Tail(t.announce_urls)]

\* What the request of announce() adds to the number of completed events
\* sent to the trackers.
completed_sent(a) == IF a.event = EVENT_COMPLETED THEN 1 ELSE 0

\* _recurring_announce after its loop: the final announce is scheduled as a
\* task of its own and the coroutine ends with outcome.
after_loop(t, outcome) ==
    [t EXCEPT !.announce_task = outcome, !.url = "-", !.sending = "-",
              !.final = [state |-> "created",
                         event |-> IF torrent_complete(pieces)
                                   THEN EVENT_COMPLETED ELSE EVENT_STOPPED,
                         url |-> "-"]]

\* One turn of the loop of _recurring_announce up to its first await.
iterate(t, event) ==
    IF t.task = "cancelled" THEN after_loop(t, "done")
    ELSE LET a == announce(t, event)
         IN  IF a.raised = "NoTrackersError"
             THEN [t EXCEPT !.announce_task = "NoTrackersError", !.event = event,
                            !.url = "-", !.sending = "-"]
             ELSE [t EXCEPT !.announce_task = "announce", !.event = event,
                            !.url = a.url, !.sending = a.event,
                            !.announce_urls = a.announce_urls,
                            !.requests = @ + 1,
                            !.completed = @ + completed_sent(a)]

\* Task.cancel() on a child task of _main.
TaskCancel(task) ==
    CASE task = "created" -> "must_cancel"
      [] task = "announce" -> "cancelling_announce"
      [] task = "sleep" -> "cancelling_sleep"
      [] task = "get" -> "cancelling_get"
      [] OTHER -> task

\* The states in which a child task has ended with an exception.
Raised == {"NoTrackersError", "TypeError"}

\* TrackerTask.start()
start ==
    /\ tracker.task = "none"
    /\ tracker' = [tracker EXCEPT !.task = "created"]
    /\ last' = Call("start", "-", 0, "None", "-")
    /\ UNCHANGED <<Requester, session, files, wire>>

\* TrackerTask.stop(): the main task is cancelled; a main task waiting in
\* gather() passes the cancellation to both children, unless gather() has
\* finished already.
stop ==
    /\ tracker.task \in {"created", "gather"}
    /\ tracker' =
          IF tracker.task = "created"
          THEN [tracker EXCEPT !.task = "must_cancel"]
          ELSE IF \/ tracker.announce_task \in Raised \cup {"cancelled"}
                  \/ tracker.receive_task \in Raised \cup {"cancelled"}
               THEN [tracker EXCEPT !.task = "gather_must_cancel"]
               ELSE [tracker EXCEPT
                        !.announce_task = TaskCancel(@),
                        !.receive_task = TaskCancel(@)]
    /\ last' = Call("stop", "-", 0, "None", "-")
    /\ UNCHANGED <<Requester, session, files, wire>>

\* _main up to its await of gather().
main ==
    /\ tracker.task \in {"created", "must_cancel"}
    /\ tracker' =
          IF tracker.task = "must_cancel"
          THEN [tracker EXCEPT !.task = "cancelled"]
          ELSE [tracker EXCEPT !.task = "gather", !.announce_task = "created",
                               !.receive_task = "created"]
    /\ last' = Call("_main", "-", 0, "None", "-")
    /\ UNCHANGED <<Requester, session, files, wire>>

\* The first steps of announce_task and receive_task, which the loop runs
\* one after the other: _recurring_announce up to its first await, and
\* _receive_peers up to response_queue.get().
tracker_first_steps ==
    /\ tracker.announce_task \in {"created", "must_cancel"}
    /\ tracker.receive_task \in {"created", "must_cancel"}
    /\ LET announced ==
               IF tracker.announce_task = "must_cancel"
               THEN [tracker EXCEPT !.announce_task = "cancelled"]
               ELSE IF Len(tracker.announce_urls) = 0
                    THEN [tracker EXCEPT !.announce_task = "NoTrackersError"]
                    ELSE iterate(tracker, EVENT_STARTED)
       IN  /\ tracker' =
                 [announced EXCEPT
                     !.receive_task = IF @ = "must_cancel" THEN "cancelled"
                                      ELSE "get"]
           /\ last' = Call("_recurring_announce", announced.url, 0,
                           announced.announce_task, announced.sending)
    /\ UNCHANGED <<Requester, session, files, wire>>

\* The event of the turn of the loop that follows a TrackerConnectionError.
continue_event_Reset(t) == ""

continue_event(t) == t.event

\* http_request() returns to announce(): with the tracker's data, or with an
\* error, after which _recurring_announce takes the next turn of its loop
\* at once.
http_response(ok, data) ==
    /\ tracker.announce_task = "announce"
    /\ LET t == tracker
           kept == t.sending # EVENT_COMPLETED /\ t.sending # EVENT_STOPPED
       IN  tracker' =
              IF ~ok
              THEN iterate([t EXCEPT !.url = "-", !.sending = "-"],
                           continue_event(t))
              ELSE [t EXCEPT
                       !.interval = IF kept THEN interval(data) ELSE @,
                       !.announce_urls = IF kept THEN <<t.url>> \o @ ELSE @,
                       !.response_queue =
                           Append(@, [none |-> ~kept,
                                      peers |-> IF kept THEN data.peers ELSE <<>>]),
                       !.event = "", !.url = "-", !.sending = "-",
                       !.succeeded = TRUE,
                       !.announce_task = "sleep"]
    /\ last' = Call("announce", tracker.url, 0,
                    IF ok THEN "response" ELSE "TrackerConnectionError",
                    tracker.sending)
    /\ UNCHANGED <<Requester, session, files, wire>>

\* asyncio.sleep(self.interval) returns and the loop takes its next turn.
sleep_done ==
    /\ tracker.announce_task = "sleep"
    /\ tracker.requests < MaxRequests
    /\ tracker' = iterate(tracker, tracker.event)
    /\ last' = Call("sleep", "-", 0, "None", "-")
    /\ UNCHANGED <<Requester, session, files, wire>>

\* The CancelledError reaches _recurring_announce: inside announce() it is
\* caught and the loop is left; inside asyncio.sleep() nothing catches it.
announce_cancelled ==
    /\ tracker.announce_task \in {"cancelling_announce", "cancelling_sleep"}
    /\ tracker' =
          IF tracker.announce_task = "cancelling_announce"
          THEN after_loop(tracker, "cancelled")
          ELSE [tracker EXCEPT !.announce_task = "cancelled"]
    /\ last' = Call("_recurring_announce", "-", 0, "CancelledError", "-")
    /\ UNCHANGED <<Requester, session, files, wire>>

\* The CancelledError reaches _receive_peers in response_queue.get().
receive_cancelled ==
    /\ tracker.receive_task = "cancelling_get"
    /\ tracker' = [tracker EXCEPT !.receive_task = "cancelled"]
    /\ last' = Call("_receive_peers", "-", 0, "CancelledError", "-")
    /\ UNCHANGED <<Requester, session, files, wire>>

\* The peers of a response without the local peer.
others(peers) == SelectSeq(peers, LAMBDA peer : peer # client_info)

\* One turn of the loop of _receive_peers.
receive_peers ==
    /\ tracker.receive_task = "get"
    /\ Len(tracker.response_queue) > 0
    /\ LET response == Head(tracker.response_queue)
           peers == others(response.peers)
           result == IF response.none THEN "None"
                     ELSE IF Len(response.peers) = 0 THEN "TypeError"
                     ELSE IF Len(peers) > Len(tracker.peer_queue) THEN "replaced"
                     ELSE "kept"
       IN  /\ tracker' =
                 [tracker EXCEPT
                     !.response_queue = Tail(@),
                     !.receive_task = IF result = "TypeError" THEN result ELSE @,
                     !.peer_queue = IF result = "replaced" THEN peers ELSE @]
           /\ last' = Call("_receive_peers", "-", 0, result, "-")
    /\ UNCHANGED <<Requester, session, files, wire>>

\* gather() has finished and _main goes on: an exception of a child is
\* handled by cancelling both children and the main task; a cancellation is
\* not handled.
main_done ==
    /\ tracker.task \in {"gather", "gather_must_cancel"}
    /\ \/ tracker.announce_task \in Raised \cup {"cancelled"}
       \/ tracker.receive_task \in Raised \cup {"cancelled"}
    /\ LET handled == /\ tracker.task = "gather"
                      /\ \/ tracker.announce_task \in Raised
                         \/ tracker.receive_task \in Raised
       IN  /\ tracker' =
                 IF handled
                 THEN [tracker EXCEPT !.task = "cancelled",
                                      !.announce_task = TaskCancel(@),
                                      !.receive_task = TaskCancel(@)]
                 ELSE [tracker EXCEPT !.task = "cancelled"]
           /\ last' = Call("_main", "-", 0,
                           IF handled THEN "handled" ELSE "CancelledError", "-")
    /\ UNCHANGED <<Requester, session, files, wire>>

\* completed() or cancel_announce(), run as a task of its own, up to the
\* await of http_request.
final_announce ==
    /\ tracker.final.state = "created"
    /\ LET a == announce(tracker, tracker.final.event)
       IN  /\ tracker' =
                 IF a.raised = "NoTrackersError"
                 THEN [tracker EXCEPT !.final.state = "done"]
                 ELSE [tracker EXCEPT !.final.state = "announce",
                                      !.final.url = a.url,
                                      !.announce_urls = a.announce_urls,
                                      !.requests = @ + 1,
                                      !.completed = @ + completed_sent(a)]
           /\ last' = Call("final", a.url, 0, a.raised, a.event)
    /\ UNCHANGED <<Requester, session, files, wire>>

\* http_request() returns to the final announce, whose errors are suppressed
\* and whose answer is dropped.
final_response(ok) ==
    /\ tracker.final.state = "announce"
    /\ tracker' = [tracker EXCEPT !.final.state = "done"]
    /\ last' = Call("final", tracker.final.url, 0,
                    IF ok THEN "response" ELSE "TrackerConnectionError",
                    tracker.final.event)
    /\ UNCHANGED <<Requester, session, files, wire>>

NextTracker ==
    \/ start
    \/ stop
    \/ main
    \/ tracker_first_steps
    \/ \E ok \in BOOLEAN, data \in TrackerData : http_response(ok, data)
    \/ sleep_done
    \/ announce_cancelled
    \/ receive_cancelled
    \/ receive_peers
    \/ main_done
    \/ final_announce
    \/ \E ok \in BOOLEAN : final_response(ok)
    \/ \E index \in PieceIdx :
          Piece_mark_written(index) /\ UNCHANGED <<session, tracker, files, wire>>

InitTracker ==
    \E urls \in UrlOrders, onDisk \in SUBSET PieceIdx :
        /\ InitRequester(<<>>, onDisk)
        /\ tracker = NewTracker(urls)

\* The tracker task of a torrent whose pieces get written while it runs.
SpecTracker == InitTracker /\ [][NextTracker]_vars

\* ------------------------------------------------------------- the resume

RECURSIVE Sum(_)
Sum(seq) == IF seq = <<>> THEN 0 ELSE Head(seq) + Sum(Tail(seq))

\* The lengths of the files of a torrent of total_size bytes.
Layouts ==
    {file_list \in UNION {[1 .. n -> 1 .. total_size] : n \in 1 .. MaxFiles} :
        Sum(file_list) = total_size}

\* What the destination holds of each file.
FileStates == {"valid", "corrupt", "missing"}

\* MetaInfoFile.check_existing_pieces, run once over the pieces as
\* _collect_pieces made them.
check_existing_pieces ==
    /\ last.op = "init"
    /\ pieces' = [i \in PieceIdx |-> check_piece(pieces[i], i, files)]
    /\ last' = Call("check_existing_pieces", "-", 0, "None", "-")
    /\ UNCHANGED <<piece_peer_map, peer_piece_map, pending_requests, delivered,
                   session, tracker, files, wire>>

NextResume ==
    \/ check_existing_pieces
    \/ /\ last.op # "init"
       /\ \/ \E peer \in Peers, bitfield \in Bitfields(num_pieces) :
                add_peer_bitfield(peer, bitfield)
          \/ \E peer \in Peers : next_request_for_peer(peer)
       /\ UNCHANGED <<session, tracker, files, wire>>

InitResume ==
    \E file_list \in Layouts :
        \E states \in [1 .. Len(file_list) -> FileStates] :
            /\ files = gather_files(file_list, states, 1, 0)
            /\ pieces = [i \in PieceIdx |-> NewPiece(i)]
            /\ session = [p \in Peers |-> NewConnection]
            /\ piece_peer_map = [i \in PieceIdx |-> {}]
            /\ peer_piece_map = << >>
            /\ pending_requests = <<>>
            /\ delivered = [i \in PieceIdx |-> 0]
            /\ last = Call("init", "-", 0, "None", "-")
            /\ tracker = NewTracker(Urls)
            /\ wire = NoWire

\* A torrent over any layout of files, verified against the destination and
\* then asked for requests.
SpecResume == InitResume /\ [][NextResume]_vars

\* -------------------------------------------------------------- the codec

\* struct ">I": an unsigned integer in four bytes, the highest first.
pack_I(n) ==
    <<(n \div 2 ^ 24) % 256, (n \div 2 ^ 16) % 256, (n \div 2 ^ 8) % 256, n % 256>>

unpack_I(bytes) ==
    ((bytes[1] * 256 + bytes[2]) * 256 + bytes[3]) * 256 + bytes[4]

\* struct "<n>s": the bytes cut or filled with null bytes to n bytes.
pack_s(n, bytes) == [j \in 1 .. n |-> IF j <= Len(bytes) THEN bytes[j] ELSE 0]

\* bitstring.BitArray(bytes=...): eight bits a byte, the highest first.
RECURSIVE BitArray(_)
BitArray(bytes) ==
    IF bytes = <<>> THEN <<>>
    ELSE [k \in 1 .. 8 |-> (Head(bytes) \div 2 ^ (8 - k)) % 2] \o BitArray(Tail(bytes))

\* BitArray.tobytes(): the bits filled with zero bits to whole bytes.
tobytes(bits) ==
    LET bit(k) == IF k <= Len(bits) THEN bits[k] ELSE 0
    IN  [j \in 1 .. (Len(bits) + 7) \div 8 |->
            LET at == 8 * (j - 1)
            IN  128 * bit(at + 1) + 64 * bit(at + 2) + 32 * bit(at + 3)
                + 16 * bit(at + 4) + 8 * bit(at + 5) + 4 * bit(at + 6)
                + 2 * bit(at + 7) + bit(at + 8)]

\* b'BitTorrent protocol'
protocol ==
    <<66, 105, 116, 84, 111, 114, 114, 101, 110, 116, 32,
      112, 114, 111, 116, 111, 99, 111, 108>>

\* The msg_id of the classes of MESSAGE_TYPES.
MESSAGE_TYPES ==
    [Choke |-> 0, Unchoke |-> 1, Interested |-> 2, NotInterested |-> 3,
     Have |-> 4, Bitfield |-> 5, Request |-> 6, Block |-> 7, Cancel |-> 8]

NoInfo == {"Choke", "Unchoke", "Interested", "NotInterested"}

\* Message.encode of each class of message.
encode(m) ==
    CASE m.kind = "Handshake" ->
            <<19>> \o protocol \o pack_s(8, <<>>)
            \o pack_s(20, m.info_hash) \o pack_s(20, m.peer_id)
      [] m.kind \in NoInfo -> pack_I(1) \o <<MESSAGE_TYPES[m.kind]>>
      [] m.kind = "Have" -> pack_I(5) \o <<MESSAGE_TYPES.Have>> \o pack_I(m.index)
      [] m.kind = "Bitfield" ->
            LET bitfield_len == Len(m.bitfield)
            IN  pack_I(1 + bitfield_len) \o <<MESSAGE_TYPES.Bitfield>>
                \o pack_s(bitfield_len, tobytes(m.bitfield))
      [] m.kind \in {"Request", "Cancel"} ->
            pack_I(13) \o <<MESSAGE_TYPES[m.kind]>>
            \o pack_I(m.index) \o pack_I(m.begin) \o pack_I(m.length)
      [] m.kind = "Block" ->
            pack_I(9 + Len(m.data)) \o <<MESSAGE_TYPES.Block>>
            \o pack_I(m.index) \o pack_I(m.begin) \o m.data

\* X.decode(data) of the class with a msg_id; struct.unpack raises
\* struct.error on data of another length than its format.
decode(msg_id, data) ==
    LET int(k) == unpack_I(SubSeq(data, 4 * k - 3, 4 * k))
        error == [kind |-> "struct.error"]
    IN  CASE msg_id = 0 -> [kind |-> "Choke"]
          [] msg_id = 1 -> [kind |-> "Unchoke"]
          [] msg_id = 2 -> [kind |-> "Interested"]
          [] msg_id = 3 -> [kind |-> "NotInterested"]
          [] msg_id = 4 ->
                IF Len(data) # 4 THEN error
                ELSE [kind |-> "Have", index |-> int(1)]
          [] msg_id = 5 -> [kind |-> "Bitfield", bitfield |-> BitArray(data)]
          [] msg_id \in {6, 8} ->
                IF Len(data) # 12 THEN error
                ELSE [kind |-> IF msg_id = 6 THEN "Request" ELSE "Cancel",
                      index |-> int(1), begin |-> int(2), length |-> int(3)]
          [] msg_id = 7 ->
                IF Len(data) < 8 THEN error
                ELSE [kind |-> "Block", index |-> int(1), begin |-> int(2),
                      length |-> Len(data) - 8,
                      data |-> SubSeq(data, 9, Len(data))]

\* Handshake.decode
Handshake_decode(data) ==
    IF Len(data) # msg_len THEN [kind |-> "struct.error"]
    ELSE [kind |-> "Handshake", info_hash |-> SubSeq(data, 29, 48),
          peer_id |-> SubSeq(data, 49, 68)]

\* What a reader makes of the bytes of one message: the handshake is
\* decoded whole, another message by the class of the msg_id that follows
\* the four bytes of its length, from the bytes after the msg_id.
decoded(bytes, whole) ==
    IF whole THEN Handshake_decode(bytes)
    ELSE LET length == unpack_I(SubSeq(bytes, 1, 4))
         IN  decode(bytes[5], SubSeq(bytes, 6, 4 + length))

\* __eq__ of the message classes.
eq(a, b) ==
    /\ a.kind = b.kind
    /\ CASE a.kind = "Handshake" -> a.info_hash = b.info_hash /\ a.peer_id = b.peer_id
         [] a.kind = "Have" -> a.index = b.index
         [] a.kind = "Bitfield" -> a.bitfield = b.bitfield
         [] a.kind \in {"Request", "Cancel"} ->
               a.index = b.index /\ a.begin = b.begin /\ a.length = b.length
         [] a.kind = "Block" ->
               a.index = b.index /\ a.begin = b.begin /\ a.data = b.data
         [] OTHER -> TRUE

\* The bytes a message may carry and the integers of its fields.
MaxField == 2

Ids == {[j \in 1 .. 20 |-> b] : b \in {7, 255}}

\* Messages with well-formed fields: integers of 32 bits, identifiers of 20
\* bytes, a bitfield made of whole bytes, any data.
Messages ==
    [kind : {"Handshake"}, info_hash : Ids, peer_id : Ids]
    \cup [kind : NoInfo]
    \cup [kind : {"Have"}, index : {0, 1, 256 * MaxField}]
    \cup [kind : {"Bitfield"}, bitfield : {BitArray(bytes) : bytes \in {<<>>, <<128>>, <<255, 0>>}}]
    \cup [kind : {"Request", "Cancel"}, index : 0 .. MaxField,
          begin : {0, 2 ^ 14}, length : {1, 2 ^ 14}]
    \cup {[kind |-> "Block", index |-> index, begin |-> begin,
           length |-> Len(data), data |-> data] :
              index \in 0 .. MaxField, begin \in {0, 2 ^ 14},
              data \in {<<>>, <<0>>, <<97, 98>>}}

\* A message is encoded for the wire.
Message_encode(m) ==
    /\ wire.bytes = <<>> \/ wire.received.kind # "none"
    /\ wire' = [sent |-> m, bytes |-> encode(m), received |-> [kind |-> "none"]]
    /\ UNCHANGED <<Requester, last, session, tracker, files>>

\* The bytes on the wire are decoded.
Message_decode ==
    /\ wire.bytes # <<>>
    /\ wire.received.kind = "none"
    /\ wire' = [wire EXCEPT
                  !.received = decoded(wire.bytes, wire.sent.kind = "Handshake")]
    /\ UNCHANGED <<Requester, last, session, tracker, files>>

NextCodec ==
    \/ \E m \in Messages : Message_encode(m)
    \/ Message_decode

\* Messages encoded and decoded one after the other.
SpecCodec == Init /\ [][NextCodec]_vars

\* ------------------------------------------------------------------ claims

\* The peers that advertise a piece of the torrent that is not complete.
Useful(p) == \E i \in Get(peer_piece_map, p) \cap PieceIdx : ~complete(pieces[i])

C3_Cap ==
    /\ Len(pending_requests) <= PendingCap
    /\ (last.op = "next_request_for_peer" /\ Len(pending_requests) >= PendingCap)
          => last.result = "None"

\* With PendingCap requests pending, a peer that advertises a piece that is
\* not complete was answered none.
C3_Witness ==
    /\ last.op = "next_request_for_peer"
    /\ Len(pending_requests) = PendingCap
    /\ Useful(last.peer)
    /\ last.result = "None"

\* C4: when a peer advertises a piece that is not complete and fewer than
\* PendingCap requests are pending, next_request_for_peer returns a request
\* for some such peer.
C4_Liveness ==
    ((\E p \in Peers : Useful(p)) /\ Len(pending_requests) < PendingCap) =>
        \E p \in Peers :
            /\ Useful(p)
            /\ NextRequest(peer_piece_map, pending_requests, pieces, p).result = "Request"

\* Piece i is advertised by some peer.
Advertised(i) == \E p \in Peers : i \in Get(peer_piece_map, p)

\* C5: under fairness, a piece that a peer advertises becomes complete,
\* unless every peer that advertises it leaves.
C5_Progress ==
    \A i \in PieceIdx :
        Advertised(i) ~> (complete(pieces[i]) \/ ~Advertised(i))

\* C6: a piece is handed to the sink (a PieceReceivedEvent is made for it)
\* at most once; one is made for every piece completed by blocks whose data
\* hashes to the metainfo hash, and for no other piece.
C6_ExactlyOnce ==
    \A i \in PieceIdx :
        /\ delivered[i] <= 1
        /\ delivered[i] = 1 =>
              (complete(pieces[i]) /\ Join(pieces[i].blocks) = Content(i))
        /\ (complete(pieces[i]) /\ ~pieces[i].written) => delivered[i] = 1

\* A piece was handed over, and a block received for it afterwards was
\* disregarded.
C6_Witness ==
    /\ last.op = "received_block"
    /\ last.result = "False"
    /\ delivered[last.index] = 1

\* C7: after remove_peer(A) no request issued to A is pending.
C7_PeerChurn ==
    last.op = "remove_peer" =>
        \A k \in 1 .. Len(pending_requests) : pending_requests[k].peer_id # last.peer

\* C8: i is in peer_piece_map[p] exactly when p is in piece_peer_map[i].
C8_MutualInverse ==
    \A p \in Peers, i \in WireIdx :
        i \in Get(peer_piece_map, p)
            <=> (i \in DOMAIN piece_peer_map /\ p \in piece_peer_map[i])

\* C9: no pending request is for a piece that is complete.
C9_NoPendingForComplete ==
    \A k \in 1 .. Len(pending_requests) :
        ~complete(pieces[pending_requests[k].index])

\* C10: after a piece completed with a hash that does not match, the piece
\* is as new, no request for it is pending and the peers that advertise it
\* are still in the maps.
C10_MismatchRecovery ==
    last.log = "hash mismatch" =>
        /\ pieces[last.index] = NewPiece(last.index)
        /\ \A k \in 1 .. Len(pending_requests) :
              pending_requests[k].index # last.index
        /\ piece_peer_map[last.index] # {}

\* C11: when add_block raises NonSequentialBlockError inside received_block,
\* the piece is reset, no request for its index stays pending, the peer is
\* kept in the maps and the piece is not treated as complete.
C11_NonSequentialHandled ==
    last.log = "non-sequential" =>
        /\ pieces[last.index] = NewPiece(last.index)
        /\ \A k \in 1 .. Len(pending_requests) :
              pending_requests[k].index # last.index
        /\ piece_peer_map[last.index] # {}
        /\ delivered[last.index] = 0

\* C12: 0 <= present <= length for every piece, after any sequence of
\* add_block, reset and mark_written.
C12_PresentBounds ==
    \A i \in PieceIdx : 0 <= pieces[i].present /\ pieces[i].present <= pieces[i].length

\* The sum of len(block.data) over the block slots of a piece.
RECURSIVE SumData(_)
SumData(blocks) ==
    IF blocks = <<>> THEN 0 ELSE Len(Head(blocks).data) + SumData(Tail(blocks))

\* The slot that a block at begin goes to holds no data yet.
FreshSlot(piece, begin) ==
    LET k == (begin \div block_size) + 1 IN
    k \in 1 .. Len(piece.blocks) => piece.blocks[k].data = <<>>

\* What the assembly invariant says of a piece.
Assembled(piece) ==
    /\ piece.present = SumData(piece.blocks)
    /\ complete(piece) <=> piece.present = piece.length
    /\ (hash(piece) # <<"None">>) <=> complete(piece)

\* C13: a new piece satisfies present == sum of len(data) over its slots,
\* complete <=> present == length and hash() defined <=> complete, and an
\* add_block on a slot that holds no data, of a piece that is not written
\* and satisfies them, leaves a piece that satisfies them.
C13_Assembly ==
    /\ \A i \in PieceIdx : Assembled(NewPiece(i))
    /\ [][\A i \in PieceIdx, begin \in WireBegin, data \in BlockData :
            (/\ Piece_add_block(i, begin, data)
             /\ ~pieces[i].written
             /\ Assembled(pieces[i])
             /\ FreshSlot(pieces[i], begin))
            => Assembled(pieces'[i])]_vars

\* A piece of two blocks was completed by add_block: both slots hold data
\* and hash() gives the digest of the two joined.
C13_Witness ==
    /\ last.op = "add_block"
    /\ ~pieces[0].written
    /\ \A k \in 1 .. Len(pieces[0].blocks) : pieces[0].blocks[k].data # <<>>
    /\ Len(pieces[0].blocks) = 2
    /\ complete(pieces[0])
    /\ Assembled(pieces[0])
    /\ hash(pieces[0]) = sha1(pieces[0].blocks[1].data \o pieces[0].blocks[2].data)

\* C14: a piece that is written is complete, and holds no blocks.
C14_WrittenComplete ==
    \A i \in PieceIdx :
        pieces[i].written => (complete(pieces[i]) /\ pieces[i].blocks = <<>>)

\* add_block was called on a piece that mark_written had marked.
C14_Witness ==
    /\ last.op = "add_block"
    /\ pieces[last.index].written

\* C15: add_block raises NonSequentialBlockError and changes nothing when
\* begin / block_size is no slot of the piece or the slot holds data; in
\* every other case it stores the data in the slot and adds len(data) to
\* present.
C15_AddBlockChecked ==
    [][\A i \in PieceIdx, begin \in WireBegin, data \in BlockData :
          Piece_add_block(i, begin, data) =>
              LET k == (begin \div block_size) + 1 IN
              IF k \notin 1 .. Len(pieces[i].blocks) \/ pieces[i].blocks[k].data # <<>>
              THEN /\ last'.result = "NonSequentialBlockError"
                   /\ pieces' = pieces
              ELSE /\ pieces'[i].blocks[k].data = data
                   /\ pieces'[i].present = pieces[i].present + Len(data)]_vars

\* A task that has ended, or that Task.cancel() has been called on.
Stopped(task) == Done(task) \/ task \in {"must_cancel", "cancelling"}

\* C16: when read_task or write_task of a connection has ended, the other
\* has ended or been cancelled, and remove_peer has been called for the peer.
C16_PumpsEndTogether ==
    \A p \in Dialed :
        (Done(session[p].read_task) \/ Done(session[p].write_task)) =>
            /\ Stopped(session[p].read_task)
            /\ Stopped(session[p].write_task)
            /\ session[p].removed >= 1

\* C17: once the cancellation of a connection whose tasks were created has
\* run its course, remove_peer has been called exactly once for the peer.
C17_RemovedOnce ==
    \A p \in Dialed :
        (/\ session[p].cancel_requested
         /\ session[p].read_task # "none"
         /\ session[p].download = "PeerError"
         /\ Done(session[p].read_task) /\ Done(session[p].write_task))
        => session[p].removed = 1

C19_ChokeDropsRequests ==
    [][\A p \in Dialed :
          consume_flag(p, 0) =>
              /\ session'[p].choking
              /\ \A k \in 1 .. Len(pending_requests') :
                    pending_requests'[k].peer_id # p
              /\ piece_peer_map' = piece_peer_map
              /\ peer_piece_map' = peer_piece_map]_vars

C21_FinalAnnounce ==
    [][announce_cancelled =>
          /\ tracker'.final.state = "created"
          /\ tracker'.final.event = IF torrent_complete(pieces)
                                    THEN EVENT_COMPLETED ELSE EVENT_STOPPED]_vars

\* C22: a failed announce to a URL is followed by the sleep of the interval
\* before the next request, with the URL kept in the rotation behind the
\* others; a successful announce leaves its URL the next one to be used.
C22_RetryAtNextTick ==
    [][\A ok \in BOOLEAN, data \in TrackerData :
          http_response(ok, data) =>
              IF ok
              THEN tracker.sending \notin {EVENT_COMPLETED, EVENT_STOPPED} =>
                      Head(tracker'.announce_urls) = tracker.url
              ELSE /\ tracker'.announce_task = "sleep"
                   /\ tracker'.requests = tracker.requests
                   /\ tracker'.announce_urls =
                         Append(tracker.announce_urls, tracker.url)]_vars

\* C23: once the recurring announcer has ended with NoTrackersError, no
\* final announce is made, and when _main has ended the task of
\* _receive_peers has ended or been cancelled.
C23_NoTrackersFatal ==
    tracker.announce_task = "NoTrackersError" =>
        /\ tracker.final.state = "none"
        /\ tracker.task = "cancelled" =>
              tracker.receive_task \in {"cancelled", "cancelling_get", "TypeError"}

\* The destination holds every file of the torrent with the content's bytes.
ValidCopy == \A k \in 1 .. Len(files) : files[k].exists /\ Sum(files[k].data) = 0

\* C24: over a destination holding a valid copy, after check_existing_pieces
\* every piece is written, the torrent is complete and next_request_for_peer
\* returns None and leaves no request pending.
C24_ResumeIdempotent ==
    (ValidCopy /\ last.op # "init") =>
        /\ \A i \in PieceIdx : pieces[i].written
        /\ torrent_complete(pieces)
        /\ pending_requests = <<>>
        /\ last.op = "next_request_for_peer" => last.result = "None"

\* C25: the message decoded from the encoding of a message equals the
\* message.
C25_RoundTrip == wire.received.kind # "none" => eq(wire.received, wire.sent)

\* The incomplete pieces a peer advertises.
Wanted(peer) ==
    {i \in Get(peer_piece_map, peer) \cap PieceIdx : ~complete(pieces[i])}

\* The offsets of the blocks of piece i that are neither present nor pending.
Requestable(i) ==
    {pieces[i].blocks[b].begin : b \in
        {b \in 1 .. Len(pieces[i].blocks) :
            /\ pieces[i].blocks[b].data = <<>>
            /\ \A k \in 1 .. Len(pending_requests) :
                  ~(/\ pending_requests[k].index = i
                    /\ pending_requests[k].begin = pieces[i].blocks[b].begin)}}

\* The pieces of a peer that yield a request.
Yielding(peer) == {i \in Wanted(peer) : Requestable(i) # {}}

Lowest(S) == CHOOSE x \in S : \A y \in S : x <= y

\* next_request_for_peer gets as far as its search.
Searching == ~torrent_complete(pieces) /\ Len(pending_requests) < PendingCap

\* C26: when the first incomplete piece of the peer has no requestable
\* block, next_request_for_peer returns a request from a later piece that
\* has one, and None if no piece of the peer has one.
C26_SearchContinues ==
    [][\A peer \in Peers :
          (/\ next_request_for_peer(peer)
           /\ Searching
           /\ Wanted(peer) # {}
           /\ Requestable(Lowest(Wanted(peer))) = {}) =>
              IF Yielding(peer) # {}
              THEN last'.result = "Request" /\ last'.index \in Yielding(peer)
              ELSE last'.result = "None"]_vars

\* C27: next_request_for_peer returns the request for the lowest piece of
\* the peer that has a requestable block and for the lowest such block.
C27_LowestFirst ==
    [][\A peer \in Peers :
          (next_request_for_peer(peer) /\ Searching /\ Yielding(peer) # {}) =>
              LET i == Lowest(Yielding(peer))
                  begin == Lowest(Requestable(i))
              IN  /\ last'.result = "Request"
                  /\ last'.index = i
                  /\ Len(pending_requests') = Len(pending_requests) + 1
                  /\ LET request == pending_requests'[Len(pending_requests')]
                     IN  /\ request.index = i
                         /\ request.begin = begin
                         /\ request.peer_id = peer]_vars

\* C28: received_block with an index that is no piece of the torrent returns
\* False and changes neither map, nor pending_requests, nor a piece.
C28_OutOfRangeDiscarded ==
    [][\A peer \in Peers, index \in WireIdx \ PieceIdx :
          \A begin \in WireBegin, data \in WireData :
              received_block(peer, index, begin, data) =>
                  /\ last'.result = "False"
                  /\ piece_peer_map' = piece_peer_map
                  /\ peer_piece_map' = peer_piece_map
                  /\ pending_requests' = pending_requests
                  /\ pieces' = pieces]_vars

\* C29: received_block for a piece that is not complete and has a pending
\* request of the block's index and begin stores the block and removes that
\* request; any other block leaves the piece and pending_requests as they
\* were.
C29_StoredIffPending ==
    [][\A peer \in Peers, index \in PieceIdx :
          \A begin \in WireBegin, data \in WireData :
              received_block(peer, index, begin, data) =>
                  LET matching ==
                          {k \in 1 .. Len(pending_requests) :
                              /\ pending_requests[k].index = index
                              /\ pending_requests[k].begin = begin}
                  IN  IF matching # {} /\ ~complete(pieces[index])
                      THEN /\ last'.result = "True"
                           /\ last'.log # "non-sequential"
                           /\ \/ \E k \in matching :
                                    pending_requests' = RemoveAt(pending_requests, k)
                              \/ pending_requests' =
                                    SelectSeq(pending_requests,
                                              LAMBDA r : ~(r.index = index /\ r.begin = begin))
                              \/ complete(pieces'[index])
                      ELSE /\ pieces'[index] = pieces[index]
                           /\ pending_requests' = pending_requests]_vars

C31_LocalStateFollowsSent ==
    \A p \in Dialed :
        session[p].write_task = produce =>
            /\ session[p].written = <<"Interested">>
            /\ session[p].local.interested

\* C32: while download() waits for the tasks of a connection that nobody
\* cancelled, the write pump has not ended, and a message left in the queue
\* is one the pump has not run for yet.
C32_PumpKeepsRunning ==
    \A p \in Dialed :
        (session[p].download = "gather" /\ ~session[p].cancel_requested) =>
            /\ ~Done(session[p].write_task)
            /\ session[p].msg_to_send_q # <<>> => session[p].write_task = "created"

\* C33: after a successful handshake with a peer whose peer_id was not known,
\* the PeerInfo of the remote peer (self.peer) carries the peer_id received
\* in the peer's handshake.
C33_RemoteIdAdopted ==
    \A p \in Dialed :
        session[p].read_task # "none" =>
            session[p].peer = session[p].received.peer_id

LoopRequest ==
    /\ tracker'.requests = tracker.requests + 1
    /\ tracker'.announce_task = "announce"

\* C34: every request the recurring announcer makes while the torrent is
\* incomplete carries the event started if the tracker has answered none of
\* its requests before, and the empty event otherwise.
C34_StartedUntilFirstSuccess ==
    [][(LoopRequest /\ SumRemaining(pieces, 0) # 0) =>
          tracker'.sending =
              IF tracker'.succeeded THEN "" ELSE EVENT_STARTED]_vars

\* A periodic announce of the incomplete torrent is on its way, after an
\* announce that succeeded.
C34_Witness ==
    /\ tracker.announce_task = "announce"
    /\ tracker.succeeded
    /\ tracker.sending = ""
    /\ SumRemaining(pieces, 0) # 0

\* The retry of a first announce that failed is on its way.
C34_WitnessRetry ==
    /\ tracker.announce_task = "announce"
    /\ last.op = "announce" /\ last.result = "TrackerConnectionError"
    /\ tracker.sending = EVENT_STARTED
    /\ SumRemaining(pieces, 0) # 0

\* The number of blocks of a piece of the length len.
NumBlocks(len) == (len + block_size - 1) \div block_size

\* C35: a piece just constructed or reset has ceil(length / block_size)
\* empty blocks, block k beginning at k * block_size with the length
\* min(block_size, length - k * block_size), so that the lengths of its
\* blocks sum to its length.
C35_BlocksCoverPiece ==
    \A i \in PieceIdx :
        (last.op = "init" \/ (last.op = "reset" /\ last.index = i)) =>
            /\ Len(pieces[i].blocks) = NumBlocks(pieces[i].length)
            /\ \A k \in 0 .. (NumBlocks(pieces[i].length) - 1) :
                  pieces[i].blocks[k + 1] =
                      Block(k * block_size,
                            Min(block_size, pieces[i].length - k * block_size))

\* C37: torrent.complete is true exactly when every piece is complete: the
\* remaining bytes of the pieces sum to 0 if and only if each piece has
\* present = length.
C37_CompleteIffAllPieces ==
    torrent_complete(pieces) <=> \A i \in PieceIdx : complete(pieces[i])

\* The byte of the content at an offset is on disk: the file that holds the
\* offset exists and has the right byte there.
OnDisk(offset) ==
    \E k \in 1 .. Len(files) :
        /\ files[k].offset <= offset /\ offset < files[k].offset + files[k].size
        /\ files[k].exists
        /\ offset - files[k].offset < Len(files[k].data)
        /\ files[k].data[offset - files[k].offset + 1] = 0

\* C36: after check_existing_pieces a piece is written if and only if all of
\* its bytes could be read from the disk at its offset and hash to its
\* piece hash, and every other piece is as reset() leaves it.
C36_WrittenIffVerified ==
    last.op # "init" =>
        \A i \in PieceIdx :
            /\ pieces[i].written <=>
                  \A j \in 0 .. (PieceLen(i) - 1) : OnDisk(i * piece_length + j)
            /\ ~pieces[i].written => pieces[i] = reset(pieces[i])

\* C39: a successful response without peers leaves the peer queue as it was
\* and the session running: _receive_peers goes on to the next response and
\* _recurring_announce is not cancelled.
C39_NoPeersHarmless ==
    [][(/\ receive_peers
        /\ ~Head(tracker.response_queue).none
        /\ Head(tracker.response_queue).peers = <<>>) =>
          /\ tracker'.peer_queue = tracker.peer_queue
          /\ tracker'.receive_task = "get"
          /\ tracker'.announce_task = tracker.announce_task]_vars

\* C40: over a whole session the event completed is sent at most once, and
\* an announce of completed or stopped that the tracker answers leaves its
\* URL among the announce URLs.
C40_CompletedOnce ==
    /\ tracker.completed <= 1
    /\ (/\ last.op = "announce" /\ last.result = "response"
        /\ last.log \in {EVENT_COMPLETED, EVENT_STOPPED}) =>
           \E k \in 1 .. Len(tracker.announce_urls) :
               tracker.announce_urls[k] = last.peer

=============================================================================
